---- MODULE Spec2Model ----
(***************************************************************************)
(* Model of telegram_ytdlp_bot.py: the chat session (cb_mode, on_link),    *)
(* the single-video run (do_single) and the bulk run (do_bulk) with its    *)
(* count-bounded batching, archiving and upload loop.                      *)
(*                                                                         *)
(* Every external call (Telegram send/edit, yt-dlp download, zip writing,  *)
(* PixelDrain upload, channel listing) either returns or raises; its       *)
(* outcome is chosen nondeterministically.  Each await of the coroutines   *)
(* is one step of the run that executes it.                                *)
(*                                                                         *)
(* Specifications:                                                         *)
(*   Spec          one bulk run                                            *)
(*   RunSpec       one single or bulk run; files can be missing when a     *)
(*                 batch is packaged                                       *)
(*   SessionSpec   the chat session with its runs                          *)
(*   DownloadSpec  one call of ytdlp_download                              *)
(*   StemSpec      _safe_stem applied to a name, and to its result         *)
(*   SelectSpec    select_urls in a "latest:N" mode                        *)
(*   LinkSpec      on_link handling one link, by the host of the link      *)
(***************************************************************************)
EXTENDS Integers, Sequences, FiniteSets, TLC

\* ---------------------------------------------------------------- bounds
\* Number of runs (handler tasks that reached do_single/do_bulk) per behaviour.
MaxRuns == 2
\* Longest url list handed to do_bulk in the single-run specification Spec.
MaxUrls == 5
\* Longest channel listing in the session specification SessionSpec.
MaxListing == 2
\* Count threshold of a batch.  The source sets BATCH_SIZE = 10 (line 30);
\* the model is parametric in it and scales it down so that several full
\* batches and a remainder fit in MaxUrls items.
BATCH_SIZE == 2
\* Longest url list of a run in the one-run specification RunSpec.
MaxRunUrls == 3
\* Largest file size and largest byte budget considered (in units of 20 MB).
MaxFileSize == 2
MaxBudget == 3

Runs == 1..MaxRuns

VARIABLES
    fsm,        \* FSMContext state of the chat: "none" | "waiting_for_link"
    sel,        \* FSMContext data["sel"]: "unset" or the callback data
    lastReply,  \* last reply on_link itself sent to the chat: "none" | "not_youtube" | "no_list"
    run,        \* run[r]: the state of the r-th download run of the chat
    call        \* the call of a helper function under evaluation (NoCall in a session)

vars == <<fsm, sel, lastReply, run, call>>

\* No helper function is being evaluated on its own.
NoCall == [fn |-> "none"]

\* ------------------------------------------------------------ run records
\* A slot no handler has used yet.  The fields of a run:
\*   kind         "none" | "single" | "bulk"
\*   pc           the statement the run is at (or "done", "raised", "cancelled")
\*   total, idx   len(urls) and the loop index of do_bulk
\*   batch_files  the open batch: the indices of the items whose files it holds
\*   batch_index, processed   as in do_bulk
\*   tmpdir       the scratch directory: "none" | "exists" | "deleted"
\*   absent       the fetched items whose file is not in the scratch directory
\*   fetchCalls   the calls of ytdlp_download so far, with their outcome
\*   zips         the calls of make_zip_single so far, with their outcome
\*   uploads      the calls of upload_pixeldrain so far, with their outcome
\*   notices      the failure and delivery messages that reached the chat
\*   summary      the final tallies <<processed, total>> handed to message.reply
NoRun ==
    [kind |-> "none", pc |-> "free", total |-> 0, idx |-> 0,
     batch_files |-> <<>>, batch_index |-> 0, processed |-> 0,
     tmpdir |-> "none", absent |-> {},
     fetchCalls |-> <<>>, zips |-> <<>>, uploads |-> <<>>,
     notices |-> <<>>, summary |-> <<>>]

\* do_bulk(message, urls) has just been called with len(urls) = n (line 416-417).
BulkCall(n) == [NoRun EXCEPT !.kind = "bulk", !.pc = "intro", !.total = n]

\* do_single(message, url) has just been called (line 391).
SingleCall == [NoRun EXCEPT !.kind = "single", !.pc = "s_intro"]

Put(r, rec) == run' = [run EXCEPT ![r] = rec]

\* Variant of ExitWith: the scratch directory made with tempfile.mkdtemp(),
\* which nothing removes (C11 depends on the `with` block).
ExitWith_NoCleanup(rec) == rec

\* Leaving the `with tempfile.TemporaryDirectory()` block deletes the directory.
ExitWith(rec) == [rec EXCEPT !.tmpdir = IF rec.tmpdir = "exists" THEN "deleted" ELSE rec.tmpdir]

\* An exception leaves the coroutine (and the handler that awaited it).
Raise(rec) == [ExitWith(rec) EXCEPT !.pc = "raised"]

\* A message that reached the chat and reports a failure or a delivery; n is
\* the item or batch index it names.  (The "downloading" and "added" progress
\* notes are not recorded: a fetch call shows that the first was sent.)
Notice(rec, kind, n) == [rec EXCEPT !.notices = Append(rec.notices, <<kind, n>>)]


\* `continue` (lines 436, 455) and the end of the loop body go back to the
\* `for` statement of line 429.
Continue(rec) == [rec EXCEPT !.pc = "loop"]

\* ---------------------------------------------------------------- archiving
\* Variant of make_zip_single without the `if not p.exists(): continue` of
\* lines 286-287 (C19 depends on it).
make_zip_single_NoSkip(files, absent, batch_idx) ==
    [index |-> batch_idx, members |-> files, written |-> files]

\* make_zip_single(files, outdir, batch_idx): the archive batch_<idx>.zip.
\* `members` is the list handed over; `written` are the members zf.write has
\* put into the archive: those whose file exists (lines 285-289).  `absent`
\* is what outdir lacks.
make_zip_single(files, absent, batch_idx) ==
    [index |-> batch_idx, members |-> files,
     written |-> SelectSeq(files, LAMBDA p : p \notin absent)]

\* The call of make_zip_single at lines 443 and 459, with its outcome.
ZipCall(rec, ok) ==
    [rec EXCEPT !.zips = Append(rec.zips,
        [zip |-> make_zip_single(rec.batch_files, rec.absent, rec.batch_index), ok |-> ok])]

\* The call of upload_pixeldrain(z) at lines 445 and 461, with its outcome.
UploadCall(rec, ok) ==
    [rec EXCEPT !.uploads = Append(rec.uploads,
        [zip |-> rec.zips[Len(rec.zips)].zip, ok |-> ok])]

\* Lines 450-451: a fresh empty batch with the next index.  (Nothing looks
\* at the files of the old batch again, so they are no longer kept track of.)
NewBatch(rec) ==
    [rec EXCEPT !.batch_files = <<>>, !.batch_index = rec.batch_index + 1, !.absent = {}]

\* Variant of BatchFull: the test of line 442 written with `>` (C14 depends
\* on the test).
BatchFull_OffByOne(rec) == Len(rec.batch_files) > BATCH_SIZE

\* Line 442: is the open batch full?
BatchFull(rec) == Len(rec.batch_files) >= BATCH_SIZE

\* Variant of HasRemainder: the remainder flush without its `if batch_files:`
\* guard (C8 depends on the guard).
HasRemainder_Unguarded(rec) == TRUE

\* Line 458: is there a remainder to flush?
HasRemainder(rec) == rec.batch_files # <<>>

\* ------------------------------------------------------------------ do_bulk
\* Line 418 (announcement) and lines 420-427 (scratch directory, empty batch).
BulkIntro(r) ==
    /\ run[r].pc = "intro"
    /\ \E ok \in BOOLEAN :
         IF ok
         THEN Put(r, [run[r] EXCEPT !.pc = "loop", !.tmpdir = "exists",
                                    !.batch_files = <<>>, !.batch_index = 1,
                                    !.processed = 0])
         ELSE Put(r, Raise(run[r]))
    /\ UNCHANGED <<fsm, sel, lastReply, call>>

\* Line 429: next item of the enumeration, or lines 457-458 when it is exhausted.
ForNext(r) ==
    /\ run[r].pc = "loop"
    /\ IF run[r].idx < run[r].total
       THEN Put(r, [run[r] EXCEPT !.idx = run[r].idx + 1, !.pc = "note"])
       ELSE IF HasRemainder(run[r])
            THEN Put(r, [run[r] EXCEPT !.pc = "rem_zip"])
            ELSE Put(r, [ExitWith(run[r]) EXCEPT !.pc = "summary"])
    /\ UNCHANGED <<fsm, sel, lastReply, call>>

\* Line 431: the "idx/total - downloading" note.
Note(r) ==
    /\ run[r].pc = "note"
    /\ \E ok \in BOOLEAN :
         IF ok
         THEN Put(r, [run[r] EXCEPT !.pc = "fetch"])
         ELSE Put(r, Continue(run[r]))
    /\ UNCHANGED <<fsm, sel, lastReply, call>>

\* Variant of Fetch: the append and the count of lines 438-439 placed where
\* a failed fetch reaches them too (C18 depends on their place).
Fetch_CommitsFailures(r) ==
    /\ run[r].pc = "fetch"
    /\ \E ok \in BOOLEAN :
         LET called == [run[r] EXCEPT !.fetchCalls =
                            Append(run[r].fetchCalls, [idx |-> run[r].idx, ok |-> ok])]
         IN  Put(r, [called EXCEPT !.batch_files = Append(called.batch_files, called.idx),
                                   !.processed = called.processed + 1,
                                   !.pc = IF ok THEN "edit_ok" ELSE "edit_err"])
    /\ UNCHANGED <<fsm, sel, lastReply, call>>

\* Lines 433-434 and 438-439: the fetch; on success the file joins the batch.
Fetch(r) ==
    /\ run[r].pc = "fetch"
    /\ \E ok \in BOOLEAN :
         LET called == [run[r] EXCEPT !.fetchCalls =
                            Append(run[r].fetchCalls, [idx |-> run[r].idx, ok |-> ok])]
         IN  IF ok
             THEN Put(r, [called EXCEPT !.batch_files = Append(called.batch_files, called.idx),
                                        !.processed = called.processed + 1,
                                        !.pc = "edit_ok"])
             ELSE Put(r, [called EXCEPT !.pc = "edit_err"])
    /\ UNCHANGED <<fsm, sel, lastReply, call>>

\* Lines 435-436: the error status of a failed fetch, then `continue`.
EditErr(r) ==
    /\ run[r].pc = "edit_err"
    /\ \E ok \in BOOLEAN :
         IF ok
         THEN Put(r, Continue(Notice(run[r], "error", run[r].idx)))
         ELSE Put(r, Continue(run[r]))
    /\ UNCHANGED <<fsm, sel, lastReply, call>>

\* Lines 440-442: the "added to the batch" status, then the threshold test.
EditOk(r) ==
    /\ run[r].pc = "edit_ok"
    /\ \E ok \in BOOLEAN :
         IF ok
         THEN Put(r, [run[r] EXCEPT !.pc = IF BatchFull(run[r]) THEN "zip" ELSE "sleep"])
         ELSE Put(r, Continue(run[r]))
    /\ UNCHANGED <<fsm, sel, lastReply, call>>

\* Line 443: archive the full batch; an exception reaches line 454.
Zip(r) ==
    /\ run[r].pc = "zip"
    /\ \E ok \in BOOLEAN :
         IF ok
         THEN Put(r, [ZipCall(run[r], TRUE) EXCEPT !.pc = "upload"])
         ELSE Put(r, Continue(ZipCall(run[r], FALSE)))
    /\ UNCHANGED <<fsm, sel, lastReply, call>>

\* Line 445: upload the archive.
Upload(r) ==
    /\ run[r].pc = "upload"
    /\ \E ok \in BOOLEAN :
         Put(r, [UploadCall(run[r], ok) EXCEPT !.pc = IF ok THEN "msg_ok" ELSE "msg_fail"])
    /\ UNCHANGED <<fsm, sel, lastReply, call>>

\* Lines 446-447, then 450-451: the links of the uploaded batch.
MsgOk(r) ==
    /\ run[r].pc = "msg_ok"
    /\ \E ok \in BOOLEAN :
         IF ok
         THEN Put(r, [NewBatch(Notice(run[r], "package", run[r].batch_index)) EXCEPT !.pc = "sleep"])
         ELSE Put(r, [run[r] EXCEPT !.pc = "msg_fail"])
    /\ UNCHANGED <<fsm, sel, lastReply, call>>

\* Lines 448-449, then 450-451: the upload-failed message.
MsgFail(r) ==
    /\ run[r].pc = "msg_fail"
    /\ \E ok \in BOOLEAN :
         IF ok
         THEN Put(r, [NewBatch(Notice(run[r], "upload_failed", run[r].batch_index)) EXCEPT !.pc = "sleep"])
         ELSE Put(r, Continue(run[r]))
    /\ UNCHANGED <<fsm, sel, lastReply, call>>

\* Line 453.
Sleep(r) ==
    /\ run[r].pc = "sleep"
    /\ Put(r, Continue(run[r]))
    /\ UNCHANGED <<fsm, sel, lastReply, call>>

\* Line 459: archive the remainder; an exception leaves do_bulk.
RemZip(r) ==
    /\ run[r].pc = "rem_zip"
    /\ \E ok \in BOOLEAN :
         IF ok
         THEN Put(r, [ZipCall(run[r], TRUE) EXCEPT !.pc = "rem_upload"])
         ELSE Put(r, Raise(ZipCall(run[r], FALSE)))
    /\ UNCHANGED <<fsm, sel, lastReply, call>>

\* Line 461.
RemUpload(r) ==
    /\ run[r].pc = "rem_upload"
    /\ \E ok \in BOOLEAN :
         Put(r, [UploadCall(run[r], ok) EXCEPT
                    !.pc = IF ok THEN "rem_msg_ok" ELSE "rem_msg_fail"])
    /\ UNCHANGED <<fsm, sel, lastReply, call>>

\* Lines 462-463.
RemMsgOk(r) ==
    /\ run[r].pc = "rem_msg_ok"
    /\ \E ok \in BOOLEAN :
         IF ok
         THEN Put(r, [ExitWith(Notice(run[r], "package", run[r].batch_index)) EXCEPT !.pc = "summary"])
         ELSE Put(r, [run[r] EXCEPT !.pc = "rem_msg_fail"])
    /\ UNCHANGED <<fsm, sel, lastReply, call>>

\* Lines 464-465; an exception of this send leaves do_bulk.
RemMsgFail(r) ==
    /\ run[r].pc = "rem_msg_fail"
    /\ \E ok \in BOOLEAN :
         IF ok
         THEN Put(r, [ExitWith(Notice(run[r], "upload_failed", run[r].batch_index)) EXCEPT !.pc = "summary"])
         ELSE Put(r, Raise(run[r]))
    /\ UNCHANGED <<fsm, sel, lastReply, call>>

\* Line 467, then on_link's `await state.clear()` (line 386).
Summary(r) ==
    /\ run[r].pc = "summary"
    /\ \E ok \in BOOLEAN :
         LET said == [run[r] EXCEPT !.summary = Append(run[r].summary,
                                        <<run[r].processed, run[r].total>>)]
         IN  IF ok
             THEN /\ Put(r, [said EXCEPT !.pc = "done"])
                  /\ fsm' = "none"
                  /\ sel' = "unset"
             ELSE /\ Put(r, Raise(said))
                  /\ UNCHANGED <<fsm, sel>>
    /\ UNCHANGED <<lastReply, call>>

BulkStep(r) ==
    \/ BulkIntro(r) \/ ForNext(r) \/ Note(r) \/ Fetch(r) \/ EditErr(r) \/ EditOk(r)
    \/ Zip(r) \/ Upload(r) \/ MsgOk(r) \/ MsgFail(r) \/ Sleep(r)
    \/ RemZip(r) \/ RemUpload(r) \/ RemMsgOk(r) \/ RemMsgFail(r) \/ Summary(r)

\* ---------------------------------------------------------------- do_single
\* do_single returns (leaving the scratch directory's `with` block), then
\* on_link runs `await state.clear()` (line 365).
SingleReturn(r, rec) ==
    /\ Put(r, [ExitWith(rec) EXCEPT !.pc = "done"])
    /\ fsm' = "none"
    /\ sel' = "unset"
    /\ UNCHANGED <<lastReply, call>>

SingleRaise(r, rec) ==
    /\ Put(r, Raise(rec))
    /\ UNCHANGED <<fsm, sel, lastReply, call>>

SingleGoto(r, rec, to) ==
    /\ Put(r, [rec EXCEPT !.pc = to])
    /\ UNCHANGED <<fsm, sel, lastReply, call>>

\* Lines 392-394: announcement, then the scratch directory.
SingleIntro(r) ==
    /\ run[r].pc = "s_intro"
    /\ \E ok \in BOOLEAN :
         IF ok THEN SingleGoto(r, [run[r] EXCEPT !.tmpdir = "exists", !.total = 1], "s_fetch")
               ELSE SingleRaise(r, run[r])

\* Lines 395-397: the fetch.
SingleFetch(r) ==
    /\ run[r].pc = "s_fetch"
    /\ \E ok \in BOOLEAN :
         LET called == [run[r] EXCEPT !.fetchCalls =
                            Append(run[r].fetchCalls, [idx |-> 1, ok |-> ok])]
         IN  IF ok THEN SingleGoto(r, [called EXCEPT !.processed = 1], "s_send")
                   ELSE SingleGoto(r, called, "s_err")

\* Lines 398-399: report the failed fetch and return.
SingleErr(r) ==
    /\ run[r].pc = "s_err"
    /\ \E ok \in BOOLEAN :
         IF ok THEN SingleReturn(r, Notice(run[r], "error", 1))
               ELSE SingleRaise(r, run[r])

\* Lines 400-405 and 412: send the file; classify a failure of the send.
SingleSend(r) ==
    /\ run[r].pc = "s_send"
    /\ \E res \in {"ok", "too_large", "other"} :
         CASE res = "ok"        -> SingleReturn(r, Notice(run[r], "document", 1))
           [] res = "too_large" -> SingleGoto(r, run[r], "s_pixel")
           [] res = "other"     -> SingleGoto(r, run[r], "s_sendfail")

\* Line 407: upload the file itself to PixelDrain.
SinglePixel(r) ==
    /\ run[r].pc = "s_pixel"
    /\ \E ok \in BOOLEAN :
         LET up == [run[r] EXCEPT !.uploads = Append(run[r].uploads,
                        [zip |-> [index |-> 0, members |-> <<1>>, written |-> <<1>>], ok |-> ok])]
         IN  SingleGoto(r, up, IF ok THEN "s_pixmsg" ELSE "s_pixfail")

\* Lines 408-409.
SinglePixMsg(r) ==
    /\ run[r].pc = "s_pixmsg"
    /\ \E ok \in BOOLEAN :
         IF ok THEN SingleReturn(r, Notice(run[r], "link", 1))
               ELSE SingleGoto(r, run[r], "s_pixfail")

\* Lines 410-411.
SinglePixFail(r) ==
    /\ run[r].pc = "s_pixfail"
    /\ \E ok \in BOOLEAN :
         IF ok THEN SingleReturn(r, Notice(run[r], "upload_failed", 1))
               ELSE SingleRaise(r, run[r])

\* Line 413.
SingleSendFail(r) ==
    /\ run[r].pc = "s_sendfail"
    /\ \E ok \in BOOLEAN :
         IF ok THEN SingleReturn(r, Notice(run[r], "send_failed", 1))
               ELSE SingleRaise(r, run[r])

SingleStep(r) ==
    \/ SingleIntro(r) \/ SingleFetch(r) \/ SingleErr(r) \/ SingleSend(r)
    \/ SinglePixel(r) \/ SinglePixMsg(r) \/ SinglePixFail(r) \/ SingleSendFail(r)

\* ------------------------------------------------------------- cancellation
\* The positions at which a run is suspended in an `await`.
AwaitPcs ==
    {"intro", "note", "fetch", "edit_err", "edit_ok", "upload", "msg_ok", "msg_fail",
     "sleep", "rem_upload", "rem_msg_ok", "rem_msg_fail", "summary",
     "s_intro", "s_fetch", "s_err", "s_send", "s_pixel", "s_pixmsg", "s_pixfail",
     "s_sendfail"}

\* The host cancels the task of a run: CancelledError is raised at the await
\* the run is suspended in; it is no Exception, so neither line 434, 448 nor
\* 454 catches it, and it leaves the `with` block.
\* asyncio.to_thread (lines 396, 433) cannot stop its thread: when the run is
\* cancelled while ytdlp_download is running, the thread goes on writing into
\* workdir while the `with` block removes the directory, so the directory is
\* either gone afterwards or there again with the thread's file in it.
Cancel(r) ==
    /\ run[r].pc \in AwaitPcs
    /\ IF run[r].pc \in {"fetch", "s_fetch"}
       THEN \E left \in {"deleted", "exists"} :
               Put(r, [run[r] EXCEPT !.pc = "cancelled_in_fetch", !.tmpdir = left])
       ELSE Put(r, [ExitWith(run[r]) EXCEPT !.pc = "cancelled"])
    /\ UNCHANGED <<fsm, sel, lastReply, call>>

\* The file of a member of the open batch is not in the scratch directory at
\* packaging time: ytdlp_download returned the name it guessed (lines 162-165)
\* for a file yt-dlp wrote under another name, or something outside the bot
\* removed the file.  Only make_zip_single looks at the files of a batch, so
\* it is enough to let a file be missing right before its call.
LoseFile(r) ==
    /\ run[r].kind = "bulk"
    /\ run[r].pc \in {"zip", "rem_zip"}
    /\ \E k \in 1..Len(run[r].batch_files) :
         /\ run[r].batch_files[k] \notin run[r].absent
         /\ Put(r, [run[r] EXCEPT !.absent = @ \cup {run[r].batch_files[k]}])
    /\ UNCHANGED <<fsm, sel, lastReply, call>>

Ended == {"done", "raised", "cancelled", "cancelled_in_fetch"}
InProgress(r) == run[r].kind # "none" /\ run[r].pc \notin Ended

\* ------------------------------------------------------------ is_youtube_url
\* A host name is a sequence of tokens; "notyoutube.com" is <<"not","youtube",".","com">>.
ALLOWED_NETLOC ==
    { <<"youtube", ".", "com">>, <<"www", ".", "youtube", ".", "com">>,
      <<"youtu", ".", "be">>, <<"m", ".", "youtube", ".", "com">> }

\* str.endswith
EndsWith(s, d) == Len(s) >= Len(d) /\ SubSeq(s, Len(s) - Len(d) + 1, Len(s)) = d

\* is_youtube_url(url), given the netloc of the url.
is_youtube_url(netloc) == \E d \in ALLOWED_NETLOC : EndsWith(netloc, d)

\* The hosts of the links a user sends in SessionSpec.
Hosts ==
    { <<"youtu", ".", "be">>, <<"not", "youtube", ".", "com">>,
      <<"example", ".", "com">>, <<>> }

\* ---------------------------------------------------------------- select_urls
\* Python's None in the "timestamp" and "view_count" fields of an entry
\* (real timestamps and view counts are not negative).
NoValue == -1

URLs == {"u1", "u2"}

\* What list_entries_with_meta can return in SessionSpec: up to n entries.
Listings(n) ==
    UNION { [1..k -> [url : URLs, timestamp : {NoValue, 1}, view_count : {NoValue, 7}]]
            : k \in 0..n }

Take(s, n) == SubSeq(s, 1, IF Len(s) < n THEN Len(s) ELSE n)

\* Variant of InsertDesc: a descending sort that is not stable, as
\* sorted(...)[::-1] is (C17 depends on the order of ties).
InsertDesc_TiesReversed(sorted, x, key) ==
    LET k == Cardinality({i \in 1..Len(sorted) : sorted[i][key] > x[key]})
    IN  SubSeq(sorted, 1, k) \o <<x>> \o SubSeq(sorted, k + 1, Len(sorted))

\* list.sort(key=..., reverse=True) is stable: among equal keys the original
\* order is kept.  `key` is the name of the field sorted by.
InsertDesc(sorted, x, key) ==
    LET k == Cardinality({i \in 1..Len(sorted) : sorted[i][key] >= x[key]})
    IN  SubSeq(sorted, 1, k) \o <<x>> \o SubSeq(sorted, k + 1, Len(sorted))

RECURSIVE SortDesc(_, _)
SortDesc(s, key) ==
    IF s = <<>> THEN <<>>
    ELSE InsertDesc(SortDesc(SubSeq(s, 1, Len(s) - 1), key), s[Len(s)], key)

UrlsOf(items) == [i \in 1..Len(items) |-> items[i].url]

\* Lines 250-263: mode "latest:n".
select_latest(n, items) ==
    LET HasTs(it) == it.timestamp # NoValue
        items2 == SortDesc(SelectSeq(items, HasTs), "timestamp")
        seen == {items2[i].url : i \in 1..Len(items2)}
        Unseen(it) == it.url \notin seen
        padded == IF Len(items2) < n
                  THEN Take(items2 \o SelectSeq(items, Unseen), n)
                  ELSE items2
    IN  UrlsOf(Take(padded, n))

\* Lines 264-276: mode "top20"; `extra` is what enrich_view_counts returns
\* (url -> view count, NoValue for a url it has no count for).
select_top20(items, extra) ==
    LET HasV(it) == it.view_count # NoValue
        with_v == SelectSeq(items, HasV)
        without_v == SelectSeq(items, LAMBDA it : ~HasV(it))
        enriched == [i \in 1..Len(items) |->
                        IF extra[items[i].url] # NoValue
                        THEN [items[i] EXCEPT !.view_count = extra[items[i].url]]
                        ELSE items[i]]
        with_v2 == IF Len(with_v) < 20 /\ without_v # <<>>
                   THEN SelectSeq(enriched, HasV)
                   ELSE with_v
    IN  UrlsOf(Take(SortDesc(with_v2, "view_count"), 20))

\* The count n of the callback data "mode:latest:n" (line 374).
LatestCount(data) ==
    CASE data = "mode:latest:10" -> 10
      [] data = "mode:latest:20" -> 20
      [] data = "mode:latest:30" -> 30

LatestModes == {"mode:latest:10", "mode:latest:20", "mode:latest:30"}

\* Lines 369-379 with select_urls (lines 243-277): the urls of a bulk selection.
select_urls(data, items, extra) ==
    IF items = <<>> THEN <<>>
    ELSE CASE data \in {"mode:all", "mode:playlist_all"} -> UrlsOf(items)
           [] data \in LatestModes -> select_latest(LatestCount(data), items)
           [] data = "mode:top20" -> select_top20(items, extra)
           [] OTHER -> <<>>

\* ------------------------------------------------------------------ handlers
\* The callback data of the menu buttons (menu_kb, lines 296-305).
Modes ==
    {"mode:single", "mode:all", "mode:latest:10", "mode:latest:20", "mode:latest:30",
     "mode:top20", "mode:playlist_all"}

FreeSlots == {r \in Runs : run[r].kind = "none"}
NextSlot == CHOOSE r \in FreeSlots : \A q \in FreeSlots : r <= q

\* cb_mode (lines 335-350): store the selection, prompt for a link, wait for it.
\* (The user presses menu buttons as long as the behaviour can start a run.)
cb_mode(data) ==
    /\ FreeSlots # {}
    /\ sel' = data
    /\ \E ok \in BOOLEAN :
         IF ok THEN fsm' = "waiting_for_link" ELSE UNCHANGED fsm
    /\ UNCHANGED <<lastReply, run, call>>

\* on_link's own reply (lines 357, 382); the send may fail.
Reply(text) == \E ok \in BOOLEAN : lastReply' = IF ok THEN text ELSE lastReply

\* Start the next run of the chat.
StartRun(rec) == Put(NextSlot, rec) /\ UNCHANGED <<fsm, sel, lastReply, call>>

\* Variant of BulkOrNoList: on_link without its `if not urls:` guard (C3
\* depends on the guard).
BulkOrNoList_Unguarded(urls) == StartRun(BulkCall(Len(urls)))

\* Lines 381-385: no urls, or do_bulk(message, urls).
BulkOrNoList(urls) ==
    IF urls = <<>>
    THEN Reply("no_list") /\ UNCHANGED <<fsm, sel, run, call>>
    ELSE StartRun(BulkCall(Len(urls)))

\* on_link (lines 353-386), up to the call of do_single or do_bulk; the
\* filter AwaitLink.waiting_for_link is its guard.  (When the listing raises,
\* the handler ends with the session as it was.)
\* The dispatcher (dp.start_polling, line 517) handles each update in a task
\* of its own: a handler starts whenever its filter holds, also while an
\* earlier handler of the chat is suspended in an await of its run.
on_link(netloc) ==
    /\ fsm = "waiting_for_link"
    /\ FreeSlots # {}
    /\ IF ~is_youtube_url(netloc)
       THEN Reply("not_youtube") /\ UNCHANGED <<fsm, sel, run, call>>
       ELSE LET data == IF sel = "unset" THEN "mode:single" ELSE sel
                NoExtra == [u \in URLs |-> NoValue]
            IN  CASE data = "mode:single" -> StartRun(SingleCall)
                  [] data = "mode:top20" ->
                       \E items \in Listings(MaxListing), extra \in [URLs -> {NoValue, 9}] :
                          BulkOrNoList(select_urls(data, items, extra))
                  [] OTHER ->
                       \E items \in Listings(MaxListing) :
                          BulkOrNoList(select_urls(data, items, NoExtra))

\* ------------------------------------------------- single-run specification
\* on_link has accepted a link in a bulk mode and called do_bulk with n urls.
Init ==
    /\ fsm = "waiting_for_link"
    /\ sel \in {"mode:all"}
    /\ lastReply = "none"
    /\ \E n \in 1..MaxUrls : run = [r \in Runs |-> IF r = 1 THEN BulkCall(n) ELSE NoRun]
    /\ call = NoCall

Next == \E r \in Runs : BulkStep(r) \/ Cancel(r)

Spec == Init /\ [][Next]_vars

\* ---------------------------------------------------- one-run specification
\* on_link has called do_single or do_bulk; files of the scratch directory
\* can be missing when a batch is packaged.
RunInit ==
    /\ fsm = "waiting_for_link"
    /\ sel \in {"mode:all"}
    /\ lastReply = "none"
    /\ \E rec \in {SingleCall} \cup {BulkCall(n) : n \in 1..MaxRunUrls} :
          run = [r \in Runs |-> IF r = 1 THEN rec ELSE NoRun]
    /\ call = NoCall

RunNext == \E r \in Runs : BulkStep(r) \/ SingleStep(r) \/ Cancel(r) \/ LoseFile(r)

RunSpec == RunInit /\ [][RunNext]_vars

\* --------------------------------------------------- session specification
\* The bot has started; the chat has no selection yet.
SessionInit ==
    /\ fsm = "none"
    /\ sel = "unset"
    /\ lastReply = "none"
    /\ run = [r \in Runs |-> NoRun]
    /\ call = NoCall

SessionNext ==
    \/ \E data \in Modes : cb_mode(data)
    \/ \E netloc \in Hosts : on_link(netloc)
    \/ \E r \in Runs : BulkStep(r) \/ SingleStep(r) \/ Cancel(r)

SessionSpec == SessionInit /\ [][SessionNext]_vars

\* ------------------------------------------------------------ ytdlp_download
\* Number of the items whose download is followed in DownloadSpec.
MaxDownloads == 3

\* Line 31.
DEFAULT_HEIGHT == 0

\* _build_format_string(mode, height), lines 119-132.  The selector with a
\* height filter is kept as the pair of its text and the height.
build_format_string(mode, height) ==
    IF mode = "audio" THEN "ba/bestaudio/best"
    ELSE IF height > 0 THEN <<"bv*[height<=H][ext=mp4]+ba[ext=m4a]/bv*[height<=H]+ba/b[height<=H]/bv*+ba/b", height>>
    ELSE "bv*+ba/b"

\* YTDLP_COMMON["extractor_args"]["youtube"]["player_client"], line 71.
CommonClients == <<"android", "web_safari", "web">>

\* What an exception's str() can hold of the texts ytdlp_download looks for.
FormatText == "Requested format is not available"
HttpText == "HTTP Error 403"
ForbiddenText == "Forbidden"

\* The exceptions extract_info raises: yt-dlp's DownloadError for an
\* unavailable format, for "HTTP Error 403: Forbidden", for another refusal and
\* for anything else, and an exception that is no DownloadError.
Exceptions ==
    { [cls |-> "DownloadError", msg |-> {FormatText}],
      [cls |-> "DownloadError", msg |-> {HttpText, ForbiddenText}],
      [cls |-> "DownloadError", msg |-> {HttpText}],
      [cls |-> "DownloadError", msg |-> {ForbiddenText}],
      [cls |-> "DownloadError", msg |-> {}],
      [cls |-> "OSError", msg |-> {ForbiddenText}] }

NoException == [cls |-> "none", msg |-> {}]

\* Variant of on_DownloadError without the `else: raise` of lines 157-158:
\* every other DownloadError is retried like a refusal.
on_DownloadError_NoRaise(msg) ==
    IF FormatText \in msg THEN "retry_format" ELSE "retry_client"

\* Lines 146-158: what the handler of DownloadError does with str(e).
on_DownloadError(msg) ==
    IF FormatText \in msg THEN "retry_format"
    ELSE IF HttpText \in msg \/ ForbiddenText \in msg THEN "retry_client"
    ELSE "raise"

\* One call of extract_info(url, download=True) with its options and outcome.
Attempt(format, player_client, exc) ==
    [format |-> format, player_client |-> player_client, exc |-> exc]

\* ytdlp_download(url, "video", DEFAULT_HEIGHT, workdir) has been called for
\* an item (lines 396, 433).
DownloadCall(item) ==
    [fn |-> "ytdlp_download", item |-> item, mode |-> "video", height |-> DEFAULT_HEIGHT,
     pc |-> "extract", attempts |-> <<>>, raised |-> NoException, path |-> "none"]

\* Lines 142-158: the first extraction and the dispatch on its exception.
Extract ==
    /\ call.fn = "ytdlp_download" /\ call.pc = "extract"
    /\ \E exc \in Exceptions \cup {NoException} :
         LET tried == [call EXCEPT !.attempts = Append(call.attempts,
                          Attempt(build_format_string(call.mode, call.height), CommonClients, exc))]
         IN  call' = IF exc = NoException THEN [tried EXCEPT !.pc = "filename"]
                     ELSE IF exc.cls # "DownloadError"
                          THEN [tried EXCEPT !.pc = "raised", !.raised = exc]
                          ELSE IF on_DownloadError(exc.msg) = "raise"
                               THEN [tried EXCEPT !.pc = "raised", !.raised = exc]
                               ELSE [tried EXCEPT !.pc = on_DownloadError(exc.msg)]
    /\ UNCHANGED <<fsm, sel, lastReply, run>>

\* Lines 148-151: the retry with the relaxed format selector; its exception
\* leaves ytdlp_download.
RetryFormat ==
    /\ call.fn = "ytdlp_download" /\ call.pc = "retry_format"
    /\ \E exc \in Exceptions \cup {NoException} :
         LET tried == [call EXCEPT !.attempts = Append(call.attempts,
                          Attempt(IF call.mode # "audio" THEN "b/best" ELSE "ba/bestaudio/best",
                                  CommonClients, exc))]
         IN  call' = IF exc = NoException THEN [tried EXCEPT !.pc = "filename"]
                     ELSE [tried EXCEPT !.pc = "raised", !.raised = exc]
    /\ UNCHANGED <<fsm, sel, lastReply, run>>

\* Lines 153-156: the retry with the android client only.
RetryClient ==
    /\ call.fn = "ytdlp_download" /\ call.pc = "retry_client"
    /\ \E exc \in Exceptions \cup {NoException} :
         LET tried == [call EXCEPT !.attempts = Append(call.attempts,
                          Attempt(build_format_string(call.mode, call.height), <<"android">>, exc))]
         IN  call' = IF exc = NoException THEN [tried EXCEPT !.pc = "filename"]
                     ELSE [tried EXCEPT !.pc = "raised", !.raised = exc]
    /\ UNCHANGED <<fsm, sel, lastReply, run>>

\* Lines 160-167: the path yt-dlp reports, or the name guessed from the title.
Filename ==
    /\ call.fn = "ytdlp_download" /\ call.pc = "filename"
    /\ \E path \in {"requested_downloads", "prepare_filename"} :
         call' = [call EXCEPT !.pc = "returned", !.path = path]
    /\ UNCHANGED <<fsm, sel, lastReply, run>>

DownloadInit ==
    /\ fsm = "waiting_for_link"
    /\ sel = "mode:all"
    /\ lastReply = "none"
    /\ run = [r \in Runs |-> NoRun]
    /\ call \in {DownloadCall(item) : item \in 1..MaxDownloads}

DownloadNext == Extract \/ RetryFormat \/ RetryClient \/ Filename

DownloadSpec == DownloadInit /\ [][DownloadNext]_vars

\* ---------------------------------------------------------------- _safe_stem
\* Longest name handed to _safe_stem in StemSpec.
MaxNameLen == 3

\* A name is a sequence of characters.  The characters names are made of in
\* StemSpec: a letter, the underscore, the space, a character outside the
\* allow-list, and a tab (outside the allow-list, and white space).
NameChars == {"a", "_", " ", "*", "\t"}

Names == UNION { [1..k -> NameChars] : k \in 0..MaxNameLen }

\* The characters of the class [A-Za-z0-9._ -] of line 103 that occur.
Allowed(c) == c \in {"a", "f", "i", "l", "e", ".", "_", " ", "-"}

\* The white space str.strip() removes.
IsSpace(c) == c \in {" ", "\t"}

\* The literal "file".
FileStem == <<"f", "i", "l", "e">>

RECURSIVE SkipRun(_)
\* s without its longest prefix of characters outside the allow-list.
SkipRun(s) ==
    IF s = <<>> \/ Allowed(s[1]) THEN s ELSE SkipRun(Tail(s))

\* Variant of re_sub: re.sub called with count=1, which replaces the first
\* run only (C15 depends on every run being replaced).
re_sub_FirstOnly(s) ==
    LET k == CHOOSE k \in 1..(Len(s) + 1) :
                 /\ \A i \in 1..(k - 1) : Allowed(s[i])
                 /\ k <= Len(s) => ~Allowed(s[k])
    IN  IF k > Len(s) THEN s
        ELSE SubSeq(s, 1, k - 1) \o <<"_">> \o SkipRun(SubSeq(s, k, Len(s)))

RECURSIVE re_sub(_)
\* re.sub(r"[^A-Za-z0-9._ -]+", "_", s): every maximal run of characters
\* outside the allow-list becomes one underscore.
re_sub(s) ==
    IF s = <<>> THEN <<>>
    ELSE IF Allowed(s[1]) THEN <<s[1]>> \o re_sub(Tail(s))
         ELSE <<"_">> \o re_sub(SkipRun(s))

RECURSIVE lstrip(_)
lstrip(s) == IF s # <<>> /\ IsSpace(s[1]) THEN lstrip(Tail(s)) ELSE s

RECURSIVE rstrip(_)
rstrip(s) ==
    IF s # <<>> /\ IsSpace(s[Len(s)]) THEN rstrip(SubSeq(s, 1, Len(s) - 1)) ELSE s

\* str.strip()
strip(s) == rstrip(lstrip(s))

\* Variant of _safe_stem without the `or "file"` of line 104 (C16 depends on
\* it).
_safe_stem_NoFallback(name) ==
    strip(re_sub(IF name = <<>> THEN FileStem ELSE name))

\* _safe_stem(name), lines 102-104.
_safe_stem(name) ==
    LET s == strip(re_sub(IF name = <<>> THEN FileStem ELSE name))
    IN  IF s = <<>> THEN FileStem ELSE s

\* _safe_stem is to be applied to a name (line 288: the title of a member).
StemCall(name) == [fn |-> "_safe_stem", name |-> name, results |-> <<>>]

\* Apply _safe_stem: first to the name, then to its own result.
ApplyStem ==
    /\ call.fn = "_safe_stem"
    /\ Len(call.results) < 2
    /\ call' = [call EXCEPT !.results =
                    Append(@, _safe_stem(IF @ = <<>> THEN call.name ELSE @[Len(@)]))]
    /\ UNCHANGED <<fsm, sel, lastReply, run>>

StemInit ==
    /\ fsm = "waiting_for_link"
    /\ sel = "mode:all"
    /\ lastReply = "none"
    /\ run = [r \in Runs |-> NoRun]
    /\ call \in {StemCall(name) : name \in Names}

StemNext == ApplyStem

StemSpec == StemInit /\ [][StemNext]_vars

\* ------------------------------------------------- select_urls, "latest:N"
\* Longest listing and largest N of "latest:N" in SelectSpec.
MaxItems == 3
MaxLatest == 3

\* The urls of the entries of a listing in SelectSpec.
ListedUrls == {"u1", "u2", "u3", "u4"}

\* What list_entries_with_meta can return in SelectSpec: up to MaxItems
\* entries with distinct urls, each with a timestamp or None.
DistinctListings ==
    UNION { { items \in [1..k -> [url : ListedUrls, timestamp : {NoValue, 0, 1},
                                   view_count : {NoValue}]] :
                \A i, j \in 1..k : i # j => items[i].url # items[j].url }
            : k \in 0..MaxItems }

\* select_urls("latest:" + n, src_url) has listed the source (line 245).
SelectCall(n, items) ==
    [fn |-> "select_urls", n |-> n, items |-> items, pc |-> "listed", result |-> <<>>]

\* Lines 246-263: nothing for an empty listing, else the latest n.
ApplySelect ==
    /\ call.fn = "select_urls" /\ call.pc = "listed"
    /\ call' = [call EXCEPT !.pc = "returned",
                            !.result = IF call.items = <<>> THEN <<>>
                                       ELSE select_latest(call.n, call.items)]
    /\ UNCHANGED <<fsm, sel, lastReply, run>>

SelectInit ==
    /\ fsm = "waiting_for_link"
    /\ sel \in LatestModes
    /\ lastReply = "none"
    /\ run = [r \in Runs |-> NoRun]
    /\ call \in {SelectCall(n, items) : n \in 1..MaxLatest, items \in DistinctListings}

SelectNext == ApplySelect

SelectSpec == SelectInit /\ [][SelectNext]_vars

\* ------------------------------------------------------- on_link, one link
\* The hosts of the links sent in LinkSpec: the four allowed names, a
\* subdomain of one, two names that only end like an allowed one, another
\* site, and a text that is no url.
LinkHosts ==
    ALLOWED_NETLOC \cup
    { <<"music", ".", "youtube", ".", "com">>,
      <<"not", "youtube", ".", "com">>, <<"evil", "youtu", ".", "be">>,
      <<"example", ".", "com">>, <<>> }

\* A link with this host is what the chat sends while the session, with the
\* selection it has, waits for a link (line 353-355).
LinkCall(netloc, data) == [fn |-> "on_link", netloc |-> netloc, sel |-> data]

LinkInit ==
    /\ fsm = "waiting_for_link"
    /\ sel \in Modes
    /\ lastReply = "none"
    /\ run = [r \in Runs |-> NoRun]
    /\ call \in {LinkCall(netloc, sel) : netloc \in LinkHosts}

\* on_link handles the link (and the same link sent again), up to its call
\* of do_single or do_bulk.
LinkNext == on_link(call.netloc)

LinkSpec == LinkInit /\ [][LinkNext]_vars

\* ===================================================================== claims
BulkRuns == {r \in Runs : run[r].kind = "bulk"}

\* The run has returned or raised (it was not cancelled).
Finished(r) == run[r].pc \in {"done", "raised"}

\* The announcement of line 418 was delivered, so the run entered its loop.
Entered(r) == run[r].tmpdir # "none"

Members(z) == {z.members[i] : i \in 1..Len(z.members)}

\* The containers produced so far: the archives make_zip_single completed.
Containers(r) == SelectSeq(run[r].zips, LAMBDA c : c.ok)

\* The items fetched successfully so far.
FetchedOk(r) == {run[r].fetchCalls[i].idx : i \in {j \in 1..Len(run[r].fetchCalls) : run[r].fetchCalls[j].ok}}

CeilDiv(n, k) == (n + k - 1) \div k

\* The sizes count-bounded batching gives n items: k, ..., k and the rest.
ExpectedSizes(n, k) ==
    [i \in 1..CeilDiv(n, k) |-> IF i * k <= n THEN k ELSE n - (i - 1) * k]

\* C1: no batch handed to the archiver holds more than BATCH_SIZE items, and a
\* bulk run that returns after n successful fetches has produced ceil(n/K)
\* containers of K members each, the last one holding the rest.
C1_CountBounded ==
    \A r \in BulkRuns :
       /\ \A i \in 1..Len(run[r].zips) : Len(run[r].zips[i].zip.members) <= BATCH_SIZE
       /\ run[r].pc = "done" =>
            [i \in 1..Len(Containers(r)) |-> Len(Containers(r)[i].zip.members)]
                = ExpectedSizes(run[r].processed, BATCH_SIZE)

\* C2: every bulk run that has entered its loop and has ended without being
\* cancelled has sent its final summary exactly once.
C2_SummaryAlways ==
    \A r \in BulkRuns : (Entered(r) /\ Finished(r)) => Len(run[r].summary) = 1

\* C3 (as claimed): after an empty listing the chat gets the tally 0 of 0.
C3_EmptyListingTally ==
    lastReply = "no_list" => \E r \in Runs : run[r].summary = << <<0, 0>> >>

\* C3 (amended): do_bulk is never called with an empty list, so no tally
\* "x of 0" is ever sent; while the last thing on_link said is that it could
\* not collect a list, the session still waits for a link.
C3_EmptyListingNoRun ==
    /\ \A r \in BulkRuns :
          /\ run[r].total >= 1
          /\ \A i \in 1..Len(run[r].summary) : run[r].summary[i][2] >= 1
    /\ (lastReply = "no_list" /\ \A r \in Runs : ~Finished(r)) => fsm = "waiting_for_link"

\* An empty listing was answered and no run was ever started.
C3_Witness ==
    /\ lastReply = "no_list"
    /\ fsm = "waiting_for_link"
    /\ \A r \in Runs : run[r] = NoRun

\* C4: when make_zip_single raises while a full batch is flushed (the step
\* from line 443 back to the loop), a message reports it and the open batch
\* is empty afterwards.
C4_ArchiveFailureHandled ==
    [][\A r \in Runs :
          (run[r].pc = "zip" /\ run'[r].pc = "loop") =>
             /\ run'[r].batch_files = <<>>
             /\ Len(run'[r].notices) = Len(run[r].notices) + 1]_vars

\* C5: no member of a container whose upload failed is uploaded again later
\* in the run.
C5_NoReupload ==
    \A r \in BulkRuns :
       \A i, j \in 1..Len(run[r].uploads) :
          (i < j /\ ~run[r].uploads[i].ok) =>
             Members(run[r].uploads[i].zip) \cap Members(run[r].uploads[j].zip) = {}

\* C6: when a bulk run has ended, every successfully fetched item is a member
\* of exactly one produced container.
C6_ExactlyOneContainer ==
    \A r \in BulkRuns :
       Finished(r) =>
          \A it \in FetchedOk(r) :
             Cardinality({i \in 1..Len(Containers(r)) : it \in Members(Containers(r)[i].zip)}) = 1

\* C7: a run that has ended has no member of its open batch left without an
\* upload attempt, and no batch index has had two upload attempts.
C7_RemainderFlushedOnce ==
    \A r \in BulkRuns :
       /\ Finished(r) =>
             \A k \in 1..Len(run[r].batch_files) :
                \E i \in 1..Len(run[r].uploads) :
                   run[r].batch_files[k] \in Members(run[r].uploads[i].zip)
       /\ \A i, j \in 1..Len(run[r].uploads) :
             i < j => run[r].uploads[i].zip.index # run[r].uploads[j].zip.index

\* C8: while no fetch of a bulk run has succeeded, no archive has been made
\* and no upload attempted; when such a run returns, its one final tally is
\* 0 of total.
C8_AllFetchesFail ==
    \A r \in BulkRuns :
       FetchedOk(r) = {} =>
          /\ run[r].zips = <<>>
          /\ run[r].uploads = <<>>
          /\ run[r].summary \in {<<>>, << <<0, run[r].total>> >>}
          /\ run[r].pc = "done" => run[r].summary = << <<0, run[r].total>> >>

\* A run over at least two items has fetched each of them, every fetch has
\* failed, and the run has returned.
C8_Witness ==
    \E r \in BulkRuns :
       /\ run[r].pc = "done"
       /\ run[r].total >= 2
       /\ Len(run[r].fetchCalls) = run[r].total
       /\ FetchedOk(r) = {}
       /\ run[r].summary = << <<0, run[r].total>> >>

\* C9: a bulk run that has returned has called ytdlp_download once for each
\* listed item, in list order, and has reported every failed fetch with an
\* error status for its index.
C9_EveryItemFetchedOnce ==
    \A r \in BulkRuns :
       run[r].pc = "done" =>
          /\ [i \in 1..Len(run[r].fetchCalls) |-> run[r].fetchCalls[i].idx]
                = [i \in 1..run[r].total |-> i]
          /\ \A i \in 1..Len(run[r].fetchCalls) :
                ~run[r].fetchCalls[i].ok =>
                   \E k \in 1..Len(run[r].notices) :
                      run[r].notices[k] = <<"error", run[r].fetchCalls[i].idx>>

\* C10: at most one run of the chat is in progress at any time.
C10_OneRunAtATime == Cardinality({r \in Runs : InProgress(r)}) <= 1

\* C11: once a single or bulk run has returned, raised, or been cancelled at
\* an await other than a fetch in flight, its scratch directory does not exist.
C11_ScratchDirGone ==
    \A r \in Runs :
       run[r].pc \in {"done", "raised", "cancelled"} => run[r].tmpdir # "exists"

\* A bulk run was cancelled after it had fetched files and made an archive,
\* and its scratch directory is gone.
C11_Witness ==
    \E r \in BulkRuns :
       /\ run[r].pc = "cancelled"
       /\ FetchedOk(r) # {}
       /\ Containers(r) # <<>>
       /\ run[r].tmpdir = "deleted"

\* C12: the i-th container produced carries batch index i, every member of a
\* container was fetched before every member of a later one, and when the
\* next item is begun every container produced has had its upload attempt.
C12_FetchOrderNoOverlap ==
    \A r \in BulkRuns :
       /\ \A i \in 1..Len(Containers(r)) : Containers(r)[i].zip.index = i
       /\ \A i, j \in 1..Len(Containers(r)) :
             i < j => \A a \in Members(Containers(r)[i].zip), b \in Members(Containers(r)[j].zip) :
                         a < b
       /\ run[r].pc \in {"note", "fetch"} => Len(run[r].uploads) = Len(Containers(r))

\* The items committed to batches so far: the members of the batches handed
\* to the archiver and of the open batch.
Committed(r) ==
    UNION {Members(run[r].zips[i].zip) : i \in 1..Len(run[r].zips)}
       \cup {run[r].batch_files[k] : k \in 1..Len(run[r].batch_files)}

\* C18: at every point of a bulk run the committed items are exactly the
\* items whose fetch has returned successfully, processed is their number,
\* no item is twice in the open batch, and processed <= fetches attempted <=
\* items begun <= total.
C18_CommitAfterFetch ==
    \A r \in BulkRuns :
       /\ Committed(r) = FetchedOk(r)
       /\ run[r].processed = Cardinality(FetchedOk(r))
       /\ \A k, l \in 1..Len(run[r].batch_files) :
             k # l => run[r].batch_files[k] # run[r].batch_files[l]
       /\ run[r].processed <= Len(run[r].fetchCalls)
       /\ Len(run[r].fetchCalls) <= run[r].idx
       /\ run[r].idx <= run[r].total

\* A bulk run was cancelled between items after a failed and a successful
\* fetch, with the fetched item in its open batch.
C18_Witness ==
    \E r \in BulkRuns :
       /\ run[r].pc = "cancelled"
       /\ \E i \in 1..Len(run[r].fetchCalls) : ~run[r].fetchCalls[i].ok
       /\ run[r].batch_files # <<>>
       /\ run[r].processed = 1 /\ run[r].idx = 2

\* The members written into an archive.
Written(z) == {z.written[i] : i \in 1..Len(z.written)}

\* C19: a call of make_zip_single that returns has written exactly the
\* members of the batch whose file exists, in batch order; the archive is
\* then handed to upload_pixeldrain and the run goes on to report the outcome.
C19_MissingFileSkipped ==
    [][\A r \in Runs :
          /\ (run[r].pc \in {"zip", "rem_zip"} /\ run'[r].pc \in {"upload", "rem_upload"}) =>
                LET z == run'[r].zips[Len(run'[r].zips)]
                IN  /\ z.ok
                    /\ Written(z.zip) = Members(z.zip) \ run[r].absent
                    /\ Len(z.zip.written) = Cardinality(Written(z.zip))
                    /\ \A k, l \in 1..Len(z.zip.written) :
                          k < l => z.zip.written[k] < z.zip.written[l]
          /\ (run[r].pc \in {"upload", "rem_upload"}
                 /\ run'[r].pc \notin {run[r].pc, "cancelled"}) =>
                /\ Len(run'[r].uploads) = Len(run[r].uploads) + 1
                /\ run'[r].uploads[Len(run'[r].uploads)].zip = run[r].zips[Len(run[r].zips)].zip
                /\ run'[r].pc \in {"msg_ok", "msg_fail", "rem_msg_ok", "rem_msg_fail"}
      ]_vars

\* A bulk run has returned after it uploaded an archive from which a missing
\* member was left out and which holds the other member of the batch.
C19_Witness ==
    \E r \in BulkRuns :
       /\ run[r].pc = "done"
       /\ \E i \in 1..Len(run[r].uploads) :
             /\ run[r].uploads[i].zip.written # run[r].uploads[i].zip.members
             /\ run[r].uploads[i].zip.written # <<>>

RECURSIVE WrittenIn(_)
\* The number of members written into the archives of a sequence of calls.
WrittenIn(zs) ==
    IF zs = <<>> THEN 0 ELSE Len(zs[1].zip.written) + WrittenIn(Tail(zs))

\* C20: the count a delivered "package i (n videos)" message announces, the
\* length of the batch handed to make_zip_single, is the number of members
\* written into the archive uploaded for it; and the tally of a run that has
\* returned is the number of members over all its archives.
C20_AnnouncedCountIsArchived ==
    \A r \in BulkRuns :
       /\ \A i \in 1..Len(run[r].uploads) :
             ( /\ run[r].uploads[i].ok
               /\ \E k \in 1..Len(run[r].notices) :
                     run[r].notices[k] = <<"package", run[r].uploads[i].zip.index>> )
             => Len(run[r].uploads[i].zip.members) = Len(run[r].uploads[i].zip.written)
       /\ run[r].pc = "done" => run[r].processed = WrittenIn(Containers(r))

\* The exception of the i-th extraction of the call.
ExcOf(i) == call.attempts[i].exc
Refused(msg) == HttpText \in msg \/ ForbiddenText \in msg

\* C13: a call of ytdlp_download extracts at most twice.  When it has ended:
\* after a first extraction that succeeded, or failed with anything but a
\* DownloadError about the format or a refusal, there was no retry, and the
\* failure is what the call raised; after "format not available" there was
\* one retry, with the selector b/best and the same clients; after a refusal
\* one retry, with the android client only and the same selector; and a
\* failed retry is what the call raised.
C13_RetryAtMostOnce ==
    call.fn = "ytdlp_download" =>
       /\ Len(call.attempts) <= 2
       /\ call.pc \in {"returned", "raised"} =>
             LET a == call.attempts
                 e == ExcOf(1)
             IN  /\ Len(a) >= 1
                 /\ a[1].format = "bv*+ba/b" /\ a[1].player_client = CommonClients
                 /\ e = NoException => Len(a) = 1 /\ call.pc = "returned"
                 /\ (e.cls = "DownloadError" /\ FormatText \in e.msg) =>
                       /\ Len(a) = 2
                       /\ a[2].format = "b/best" /\ a[2].player_client = a[1].player_client
                 /\ (e.cls = "DownloadError" /\ Refused(e.msg)) =>
                       /\ Len(a) = 2
                       /\ a[2].format = a[1].format /\ a[2].player_client = <<"android">>
                 /\ (e # NoException
                        /\ ~(e.cls = "DownloadError" /\ (FormatText \in e.msg \/ Refused(e.msg)))) =>
                       /\ Len(a) = 1
                       /\ call.pc = "raised" /\ call.raised = e
                 /\ Len(a) = 2 =>
                       IF ExcOf(2) = NoException
                       THEN call.pc = "returned"
                       ELSE call.pc = "raised" /\ call.raised = ExcOf(2)

\* A refused extraction was retried with the android client, the retry
\* failed with "format not available", and that is what the call raised.
C13_Witness ==
    /\ call.fn = "ytdlp_download"
    /\ call.pc = "raised"
    /\ Len(call.attempts) = 2
    /\ ExcOf(1) = [cls |-> "DownloadError", msg |-> {HttpText, ForbiddenText}]
    /\ ExcOf(2) = [cls |-> "DownloadError", msg |-> {FormatText}]
    /\ call.raised = ExcOf(2)

RECURSIVE TotalSize(_, _)
\* The sum of the sizes of the members m, where size[i] is the size of the
\* file of item i.
TotalSize(m, size) ==
    IF m = <<>> THEN 0 ELSE size[m[1]] + TotalSize(Tail(m), size)

\* C14 (as claimed): whatever the sizes of the fetched files and the byte
\* budget B, no container holds more than B in total, except a container of
\* exactly one member whose own size exceeds B.
C14_SizeBounded ==
    \A r \in BulkRuns :
       \A size \in [1..run[r].total -> 1..MaxFileSize], B \in 1..MaxBudget :
          \A i \in 1..Len(Containers(r)) :
             LET m == Containers(r)[i].zip.written
             IN  \/ TotalSize(m, size) <= B
                 \/ Len(m) = 1 /\ size[m[1]] > B

\* C14 (amended): batches are closed by count alone.  A fetched file joins
\* the open batch whole, whatever its size; the threshold test of line 442
\* archives the batch exactly when it holds BATCH_SIZE files or more; after
\* the last item the open batch is archived exactly when it is not empty; and
\* the archiver is handed the whole open batch.
C14_ClosedByCountAlone ==
    [][\A r \in Runs :
          /\ (run[r].pc = "fetch" /\ run'[r].pc = "edit_ok") =>
                run'[r].batch_files = Append(run[r].batch_files, run[r].idx)
          /\ (run[r].pc = "edit_ok" /\ run'[r].pc \in {"zip", "sleep"}) =>
                (run'[r].pc = "zip" <=> Len(run[r].batch_files) >= BATCH_SIZE)
          /\ (run[r].pc = "loop" /\ run'[r].pc \in {"rem_zip", "summary"}) =>
                (run'[r].pc = "rem_zip" <=> run[r].batch_files # <<>>)
          /\ (run[r].pc \in {"zip", "rem_zip"} /\ Len(run'[r].zips) = Len(run[r].zips) + 1) =>
                run'[r].zips[Len(run'[r].zips)].zip.members = run[r].batch_files
      ]_vars

\* A run has returned with a full container of BATCH_SIZE members, which
\* exceeds the budget 3 when each file has size 2, and a container of the one
\* file left over.
C14_Witness ==
    \E r \in BulkRuns :
       /\ run[r].pc = "done"
       /\ Len(Containers(r)) = 2
       /\ Len(Containers(r)[1].zip.members) = BATCH_SIZE
       /\ TotalSize(Containers(r)[1].zip.members, [i \in 1..run[r].total |-> MaxFileSize]) > MaxBudget
       /\ Len(Containers(r)[2].zip.members) = 1

\* C15: applying _safe_stem to its own result gives that result again.
C15_SafeStemIdempotent ==
    (call.fn = "_safe_stem" /\ Len(call.results) = 2) => call.results[2] = call.results[1]

\* _safe_stem has been applied twice to a name with two runs of characters
\* outside the allow-list and white space at its end.
C15_Witness ==
    /\ call.fn = "_safe_stem"
    /\ call.name = <<"*", "a", "\t">>
    /\ Len(call.results) = 2
    /\ call.results[1] = <<"_", "a", "_">>

\* What is left of a character of the name: an allow-list character stays, a
\* character outside the allow-list becomes "_" when it begins a run and
\* nothing otherwise.
Image(name, i) ==
    IF Allowed(name[i]) THEN <<name[i]>>
    ELSE IF i = 1 \/ Allowed(name[i - 1]) THEN <<"_">> ELSE <<>>

RECURSIVE Images(_, _)
Images(name, n) == IF n = 0 THEN <<>> ELSE Images(name, n - 1) \o Image(name, n)

\* C16: the result of _safe_stem is not empty and holds allow-list
\* characters only; it is the name with every maximal run of other characters
\* replaced by one "_" and the spaces at its ends removed, or "file" when
\* the name, or what is left of it, is empty.
C16_SafeStemResult ==
    (call.fn = "_safe_stem" /\ Len(call.results) >= 1) =>
       LET res == call.results[1]
           img == Images(call.name, Len(call.name))
           lead == Cardinality({i \in 1..Len(img) : \A j \in 1..i : img[j] = " "})
           trail == Cardinality({i \in 1..Len(img) : \A j \in i..Len(img) : img[j] = " "})
       IN  /\ res # <<>>
           /\ \A i \in 1..Len(res) : Allowed(res[i])
           /\ IF lead = Len(img)
              THEN res = FileStem
              ELSE res = SubSeq(img, lead + 1, Len(img) - trail)

\* _safe_stem has been applied to a name of spaces and to one of the shape of
\* the self-test's "a*b?c" (line 479).
C16_Witness ==
    /\ call.fn = "_safe_stem"
    /\ Len(call.results) >= 1
    /\ \/ call.name = <<" ", " ">> /\ call.results[1] = FileStem
       \/ call.name = <<"a", "*", "a">> /\ call.results[1] = <<"a", "_", "a">>

\* In the order C17 describes, does entry j of the listing come before entry
\* i?  Entries with a timestamp first, the later timestamp first and equal
\* timestamps in listing order; then the entries without one, in listing order.
ComesBefore(items, j, i) ==
    LET tj == items[j].timestamp
        ti == items[i].timestamp
    IN  CASE tj # NoValue /\ ti # NoValue -> tj > ti \/ (tj = ti /\ j < i)
          [] tj # NoValue /\ ti = NoValue -> TRUE
          [] tj = NoValue /\ ti # NoValue -> FALSE
          [] OTHER -> j < i

\* The place of entry i in that order.
Place(items, i) == 1 + Cardinality({j \in 1..Len(items) : ComesBefore(items, j, i)})

\* C17: for a listing with distinct urls, "latest:N" returns min(N, number of
\* entries) urls, the url of each entry at the entry's place in the order
\* above, and no url twice.
C17_LatestSelection ==
    (call.fn = "select_urls" /\ call.pc = "returned") =>
       LET items == call.items
           res == call.result
       IN  /\ Len(res) = IF call.n < Len(items) THEN call.n ELSE Len(items)
           /\ \A i \in 1..Len(items) :
                 Place(items, i) <= Len(res) => res[Place(items, i)] = items[i].url
           /\ \A k, l \in 1..Len(res) : k # l => res[k] # res[l]

\* "latest:3" has been applied to three entries: two with the same timestamp
\* around one with none, which is returned last.
C17_Witness ==
    /\ call.fn = "select_urls" /\ call.pc = "returned"
    /\ call.n = 3 /\ Len(call.items) = 3
    /\ call.items[1].timestamp = 1
    /\ call.items[2].timestamp = NoValue
    /\ call.items[3].timestamp = 1
    /\ call.result = <<call.items[1].url, call.items[3].url, call.items[2].url>>

\* The host is one of the ALLOWED_NETLOC names or a subdomain of one.
IsYoutubeHost(h) ==
    \E d \in ALLOWED_NETLOC : h = d \/ EndsWith(h, <<".">> \o d)

\* C21: on_link starts a run only for a link whose host is an ALLOWED_NETLOC
\* name or a subdomain of one; for any other host it starts none, the only
\* reply is that this is no YouTube link, and the selection and the waiting
\* state stay as they were.
C21_OnlyYoutubeHosts ==
    call.fn = "on_link" =>
       /\ (\E r \in Runs : run[r] # NoRun) => IsYoutubeHost(call.netloc)
       /\ ~IsYoutubeHost(call.netloc) =>
             /\ \A r \in Runs : run[r] = NoRun
             /\ lastReply \in {"none", "not_youtube"}
             /\ fsm = "waiting_for_link"
             /\ sel = call.sel

====
